---------------------------- MODULE Spec2Model ----------------------------
(***************************************************************************)
(* A model of social_peewee/storage.py: the peewee storage backend of      *)
(* python-social-auth.  The model mixins and the storage facade are        *)
(* modelled over tables held as sets of rows.  A call into the peewee      *)
(* engine is modelled by what the called peewee method does with the       *)
(* arguments the source passes: Model.get_or_create takes keyword          *)
(* arguments only, Model.delete() is a classmethod that builds a DELETE    *)
(* query without running it, a select query has neither delete() nor       *)
(* save(), and where(None) adds no filter.                                 *)
(***************************************************************************)
EXTENDS Integers, Sequences, FiniteSets, TLC

VARIABLES
    unique,     \* the schema declares the natural keys as unique indexes
    users,      \* rows of the application's user model
    social,     \* rows of PeeweeUserMixin (user associations)
    nonces,     \* rows of PeeweeNonceMixin
    assocs,     \* rows of PeeweeAssociationMixin
    partials,   \* rows of PeeweePartialMixin
    ret,        \* the last sequential call and what it returned or raised
    pc,         \* per caller: where it stands inside a store operation
    loc,        \* per caller: the arguments and locals of its running call
    res         \* per caller: the last finished call and its outcome

vars == <<unique, users, social, nonces, assocs, partials, ret, pc, loc, res>>

--------------------------------------------------------------------------
(* Bounds of the model *)

MaxUsers == 2
MaxSocial == 2

--------------------------------------------------------------------------
(* The engine: tables, primary keys, predicates *)

Ids(table) == {r.id : r \in table}

\* the autoincrement primary key the engine gives the next inserted row
NextId(table) ==
    IF table = {} THEN 1
    ELSE (CHOOSE m \in Ids(table) : \A i \in Ids(table) : i <= m) + 1

\* cls._meta.fields[field_name] == value
QueryItem(field_name, value) == [f \in {field_name} |-> value]

\* the value None, which where() and get() take as "no filter"
NoneQuery == [kind |-> "none", eq |-> <<>>]

\* True & query_item: the expression  1 AND (field = value)
AndTrue(query_item) == [kind |-> "expr", eq |-> query_item]

\* whether a row passes where(query)
Matches(row, query) ==
    \/ query.kind = "none"
    \/ \A f \in DOMAIN query.eq : row[f] = query.eq[f]

Select(table, query) == {r \in table : Matches(r, query)}

\* the mapping's entries joined by AND as a whole: the fixed builder, used
\* to state what the builder is specified to compute
AllItemsQuery(params) == [kind |-> "expr", eq |-> params]

\* get_query_by_dict_param(cls, params); first is the entry the iteration
\* of params.items() yields first (any entry: the order is the dict's).
\* The return sits inside the loop body: the first entry ends the loop, and
\* an empty mapping falls off the end of the function, which returns None.
get_query_by_dict_param(params, first) ==
    IF DOMAIN params = {} THEN NoneQuery
    ELSE AndTrue(QueryItem(first, params[first]))

\* the entries params.items() can yield first
FirstItems(params) == IF DOMAIN params = {} THEN {"-"} ELSE DOMAIN params

--------------------------------------------------------------------------
(* The user model and the user operations of PeeweeUserMixin *)

Usernames == {"ann", "bob"}
Emails == {"a@x", "b@x"}
\* has_usable_password() gives True, gives False, or the user model has no
\* such method
PwKinds == {"usable", "unusable", "nomethod"}

CritFields == {"username", "email"}
FieldValues(f) == IF f = "username" THEN Usernames ELSE Emails

\* the keyword arguments a caller can pass as criteria
Kwargs ==
    UNION {{k \in [S -> Usernames \cup Emails] :
               \A f \in S : k[f] \in FieldValues(f)} : S \in SUBSET CritFields}

PkNone == [none |-> TRUE, v |-> 0]
Pk(n) == [none |-> FALSE, v |-> n]
Pks == {PkNone} \cup {Pk(n) : n \in 0..(MaxUsers + 1)}
\* Python truth of pk: None and 0 are false
Truthy(pk) == ~pk.none /\ pk.v # 0

NoRet == [op |-> "init"]

\* create_user(fields): the user model's create()
CreateUser(username, email, pw) ==
    /\ Cardinality(users) < MaxUsers
    /\ LET u == [id |-> NextId(users), username |-> username,
                 email |-> email, pw |-> pw]
       IN /\ users' = users \cup {u}
          /\ ret' = [op |-> "create_user", rows |-> {u}]
    /\ UNCHANGED <<unique, social, nonces, assocs, partials, pc, loc, res>>

\* user_exists(kwargs)
UserExists(kwargs, first) ==
    /\ LET query == get_query_by_dict_param(kwargs, first)
       IN ret' = [op |-> "user_exists", kwargs |-> kwargs,
                  flag |-> Cardinality(Select(users, query)) > 0]
    /\ UNCHANGED <<unique, users, social, nonces, assocs, partials, pc, loc, res>>

\* the criteria get_user looks up by: a true pk replaces them by {'id': pk}
GetUserKwargs(pk, kwargs) == IF Truthy(pk) THEN [id |-> pk.v] ELSE kwargs

\* get_user(pk, kwargs): Model.get(query) gives a matching row, and
\* DoesNotExist, raised when none matches, is turned into None
GetUser(pk, kwargs, first) ==
    /\ LET kw == GetUserKwargs(pk, kwargs)
           found == Select(users, get_query_by_dict_param(kw, first))
       IN \/ /\ found = {}
             /\ ret' = [op |-> "get_user", pk |-> pk, kwargs |-> kwargs,
                        rows |-> {}]
          \/ \E u \in found :
                ret' = [op |-> "get_user", pk |-> pk, kwargs |-> kwargs,
                        rows |-> {u}]
    /\ UNCHANGED <<unique, users, social, nonces, assocs, partials, pc, loc, res>>

\* the user operations touch the user table alone
InitUser ==
    /\ unique = FALSE
    /\ users = {}
    /\ social = {}
    /\ nonces = {}
    /\ assocs = {}
    /\ partials = {}
    /\ ret = NoRet
    /\ pc = <<>>
    /\ loc = <<>>
    /\ res = <<>>

NextUser ==
    \/ \E n \in Usernames, e \in Emails, p \in PwKinds : CreateUser(n, e, p)
    \/ \E k \in Kwargs : \E f \in FirstItems(k) : UserExists(k, f)
    \/ \E pk \in Pks, k \in Kwargs :
          \E f \in FirstItems(GetUserKwargs(pk, k)) : GetUser(pk, k, f)

SpecUser == InitUser /\ [][NextUser]_vars

--------------------------------------------------------------------------
(* User associations: PeeweeUserMixin over its own table *)

Providers == {"google", "github"}

\* a uid as the caller passes it: text, or a value that is not text
StrUid(s) == [isstr |-> TRUE, n |-> 0, s |-> s]
IntUid(n) == [isstr |-> FALSE, n |-> n, s |-> ""]
UidInputs == {IntUid(7), IntUid(123), StrUid("7"), StrUid("123")}

Digit(d) == <<"0", "1", "2", "3", "4", "5", "6", "7", "8", "9">>[d + 1]

\* str(n) of a natural number: its decimal digits
RECURSIVE IntToStr(_)
IntToStr(n) == IF n < 10 THEN Digit(n) ELSE IntToStr(n \div 10) \o Digit(n % 10)

\* if not isinstance(uid, six.string_types): uid = str(uid)
UidText(uid) == IF uid.isstr THEN uid.s ELSE IntToStr(uid.n)

\* the users of the association specifications: one of each password kind
SampleUsers ==
    {[id |-> 1, username |-> "ann", email |-> "a@x", pw |-> "usable"],
     [id |-> 2, username |-> "bob", email |-> "b@x", pw |-> "unusable"],
     [id |-> 3, username |-> "ann", email |-> "b@x", pw |-> "nomethod"]}

\* where(cls.provider == provider, cls.uid == uid), ignoring the provider
SocialMatchesAnyProvider(r, provider, uid) == r.uid = uid

\* where(cls.provider == provider, cls.uid == uid)
SocialMatches(r, provider, uid) == r.provider = provider /\ r.uid = uid

\* create_social_auth(user, uid, provider): cls.create(...) inserts a row;
\* a unique index on (provider, uid) makes the engine raise IntegrityError
\* for a second row with the pair
CreateSocialAuth(user, uid, provider) ==
    /\ Cardinality(social) < MaxSocial
    /\ NextId(social) <= MaxSocial + 1
    /\ LET text == UidText(uid)
           row == [id |-> NextId(social), provider |-> provider,
                   uid |-> text, user |-> user.id]
       IN IF unique /\ \E r \in social : SocialMatches(r, provider, text)
          THEN /\ social' = social
               /\ ret' = [op |-> "create_social_auth", user |-> user.id,
                          uid |-> uid, provider |-> provider, rows |-> {},
                          raised |-> "IntegrityError"]
          ELSE /\ social' = social \cup {row}
               /\ ret' = [op |-> "create_social_auth", user |-> user.id,
                          uid |-> uid, provider |-> provider, rows |-> {row},
                          raised |-> ""]
    /\ UNCHANGED <<unique, users, nonces, assocs, partials, pc, loc, res>>

\* get_social_auth(provider, uid): a matching row, or None for DoesNotExist
GetSocialAuth(provider, uid) ==
    /\ LET text == UidText(uid)
           found == {r \in social : SocialMatches(r, provider, text)}
       IN \/ /\ found = {}
             /\ ret' = [op |-> "get_social_auth", provider |-> provider,
                        uid |-> uid, rows |-> {}]
          \/ \E r \in found :
                ret' = [op |-> "get_social_auth", provider |-> provider,
                        uid |-> uid, rows |-> {r}]
    /\ UNCHANGED <<unique, users, social, nonces, assocs, partials, pc, loc, res>>

\* disconnect(entry): entry.delete_instance()
Disconnect(entry) ==
    /\ social' = social \ {entry}
    /\ ret' = [op |-> "disconnect", rows |-> {entry}]
    /\ UNCHANGED <<unique, users, nonces, assocs, partials, pc, loc, res>>

\* association_id as passed: None or an id
AssocIdArgs == {PkNone} \cup {Pk(n) : n \in 0..(MaxSocial + 1)}

\* the query of allowed_to_disconnect without where(cls.user == user)
DisconnectQueryAnyUser(user, backend_name, association_id) ==
    IF ~association_id.none
    THEN {r \in social : r.id # association_id.v}
    ELSE {r \in social : r.provider # backend_name}

\* the query of allowed_to_disconnect: the rows it counts
DisconnectQuery(user, backend_name, association_id) ==
    {r \in (IF ~association_id.none
            THEN {x \in social : x.id # association_id.v}
            ELSE {x \in social : x.provider # backend_name}) :
        r.user = user.id}

\* valid_password: has_usable_password() when the user has that method,
\* True when it has not
ValidPassword(user) ==
    IF user.pw # "nomethod" THEN user.pw = "usable" ELSE TRUE

\* allowed_to_disconnect(user, backend_name, association_id=None)
AllowedToDisconnect(user, backend_name, association_id) ==
    /\ ret' = [op |-> "allowed_to_disconnect", user |-> user,
               backend_name |-> backend_name,
               association_id |-> association_id,
               flag |-> (ValidPassword(user) \/
                   Cardinality(DisconnectQuery(user, backend_name,
                                               association_id)) > 0)]
    /\ UNCHANGED <<unique, users, social, nonces, assocs, partials, pc, loc, res>>

--------------------------------------------------------------------------
(* The storage facade's classifier *)

\* the classes of the failures the pipeline hands to the classifier, each
\* with its base class
ExcBase ==
    [IntegrityError |-> "DatabaseError", UniqueViolation |-> "IntegrityError",
     DatabaseError |-> "Exception", OperationalError |-> "DatabaseError",
     DoesNotExist |-> "Exception", TypeError |-> "Exception",
     Exception |-> "Exception"]

ExcClasses == DOMAIN ExcBase

RECURSIVE IsSubclass(_, _)
IsSubclass(c, base) ==
    \/ c = base
    \/ c # "Exception" /\ IsSubclass(ExcBase[c], base)

\* the classifier written with isinstance
IsIntegrityErrorInstance(exception) == IsSubclass(exception, "IntegrityError")

\* is_integrity_error(exception): exception.__class__ is IntegrityError
is_integrity_error(exception) == exception = "IntegrityError"

IsIntegrityError(exception) ==
    /\ ret' = [op |-> "is_integrity_error", exception |-> exception,
               flag |-> is_integrity_error(exception)]
    /\ UNCHANGED <<unique, users, social, nonces, assocs, partials, pc, loc, res>>

InitSocial ==
    /\ unique \in BOOLEAN
    /\ users = SampleUsers
    /\ social = {}
    /\ nonces = {}
    /\ assocs = {}
    /\ partials = {}
    /\ ret = NoRet
    /\ pc = <<>>
    /\ loc = <<>>
    /\ res = <<>>

\* creation, lookup and classification, with users 1 and 2 as owners
NextSocial ==
    \/ \E u \in {x \in users : x.id <= 2}, uid \in UidInputs, p \in Providers :
          CreateSocialAuth(u, uid, p)
    \/ \E p \in Providers, uid \in UidInputs : GetSocialAuth(p, uid)
    \/ \E e \in social : Disconnect(e)
    \/ \E c \in ExcClasses : IsIntegrityError(c)

SpecSocial == InitSocial /\ [][NextSocial]_vars

\* disconnection, with one uid per provider
NextDisconnect ==
    \/ \E u \in users, p \in Providers : CreateSocialAuth(u, StrUid("7"), p)
    \/ \E e \in social : Disconnect(e)
    \/ \E u \in users, b \in Providers, a \in AssocIdArgs :
          AllowedToDisconnect(u, b, a)

SpecDisconnect == InitSocial /\ [][NextDisconnect]_vars

--------------------------------------------------------------------------
(* The nonce, association and partial stores, used by concurrent callers *)

Callers == {1, 2}

ServerUrls == {"op1", "op2"}
\* the triples use() is called with
Triples == [server_url : ServerUrls, timestamp : {"100"}, salt : {"a"}]

Handles == {"h1", "h2"}
\* an association as the protocol library passes it: the secret is raw bytes
Associations ==
    {[handle |-> h, secret |-> s, issued |-> "10", lifetime |-> "60",
      assoc_type |-> "HMAC-SHA1"] : h \in {"h1"}, s \in {<<1>>, <<1, 2, 3>>}}

Tokens == {"tok1", "tok2"}

B64Chars ==
    <<"A", "B", "C", "D", "E", "F", "G", "H", "I", "J", "K", "L", "M",
      "N", "O", "P", "Q", "R", "S", "T", "U", "V", "W", "X", "Y", "Z",
      "a", "b", "c", "d", "e", "f", "g", "h", "i", "j", "k", "l", "m",
      "n", "o", "p", "q", "r", "s", "t", "u", "v", "w", "x", "y", "z",
      "0", "1", "2", "3", "4", "5", "6", "7", "8", "9", "+", "/">>

B64Char(sextet) == B64Chars[sextet + 1]

\* base64 of a byte string: three bytes give four characters, a last group
\* of one or two bytes is padded with "="
RECURSIVE B64(_)
B64(bytes) ==
    IF Len(bytes) = 0 THEN ""
    ELSE IF Len(bytes) = 1
    THEN B64Char(bytes[1] \div 4) \o B64Char((bytes[1] % 4) * 16) \o "=="
    ELSE IF Len(bytes) = 2
    THEN B64Char(bytes[1] \div 4)
         \o B64Char((bytes[1] % 4) * 16 + bytes[2] \div 16)
         \o B64Char((bytes[2] % 16) * 4) \o "="
    ELSE B64Char(bytes[1] \div 4)
         \o B64Char((bytes[1] % 4) * 16 + bytes[2] \div 16)
         \o B64Char((bytes[2] % 16) * 4 + bytes[3] \div 64)
         \o B64Char(bytes[3] % 64)
         \o B64(SubSeq(bytes, 4, Len(bytes)))

\* base64.encodestring(secret): the base64 text of a short secret, ended by
\* a newline
encodestring(secret) == IF Len(secret) = 0 THEN "" ELSE B64(secret) \o "\n"

\* the stores a run starts from: rows written before the calls observed
NonceStores ==
    {{},
     {[id |-> 1, server_url |-> "op1", timestamp |-> "100", salt |-> "a"]},
     {[id |-> 1, server_url |-> "op1", timestamp |-> "100", salt |-> "a"],
      [id |-> 2, server_url |-> "op2", timestamp |-> "100", salt |-> "a"]}}

AssocRow(id, server_url, a) ==
    [id |-> id, server_url |-> server_url, handle |-> a.handle,
     secret |-> encodestring(a.secret), issued |-> a.issued,
     lifetime |-> a.lifetime, assoc_type |-> a.assoc_type]

AssocStores ==
    {{}} \cup
    {{AssocRow(1, "op1", a)} : a \in Associations}
    \cup
    {{AssocRow(1, "op1", a), AssocRow(2, "op2", [a EXCEPT !.handle = "h2"])} :
        a \in {x \in Associations : x.secret = <<1>>}}

PartialRow(id, token) ==
    [id |-> id, token |-> token, data |-> "{}", next_step |-> id,
     backend |-> "google"]

PartialStores ==
    {{}, {PartialRow(1, "tok1")}, {PartialRow(1, "tok1"), PartialRow(2, "tok2")}}

\* the criteria Association.get is called with
AssocKwargs ==
    UNION {{k \in [S -> ServerUrls \cup Handles] :
               \A f \in S : k[f] \in (IF f = "server_url" THEN ServerUrls
                                      ELSE Handles)} :
           S \in SUBSET {"server_url", "handle"}}

Idle == [op |-> "none"]

\* Nonce.use(server_url, timestamp, salt): the three expressions go to
\* Model.get_or_create as positional arguments; get_or_create takes keyword
\* arguments only, so the call raises TypeError before any query runs
Use(p, triple) ==
    /\ pc[p] = "idle"
    /\ res' = [res EXCEPT ![p] =
                  [op |-> "use", triple |-> triple, rows |-> {},
                   created |-> FALSE, raised |-> "TypeError"]]
    /\ UNCHANGED <<unique, users, social, nonces, assocs, partials, ret, pc, loc>>

\* PeeweeAssociationMixin.get(*args, kwargs): the positional arguments are
\* not used; the result is the select query over the built predicate
AssociationGetQuery(kwargs, first) == get_query_by_dict_param(kwargs, first)

AssociationGet(p, kwargs, first) ==
    /\ pc[p] = "idle"
    /\ res' = [res EXCEPT ![p] =
                  [op |-> "get", kwargs |-> kwargs, raised |-> "",
                   rows |-> Select(assocs, AssociationGetQuery(kwargs, first))]]
    /\ UNCHANGED <<unique, users, social, nonces, assocs, partials, ret, pc, loc>>

\* Association.store, the lookup: cls.get(...) is the get of this class,
\* called with two positional expressions and no keyword: it returns a
\* select query over no predicate and never raises DoesNotExist
StoreGet(p, server_url, association) ==
    /\ pc[p] = "idle"
    /\ pc' = [pc EXCEPT ![p] = "store_save"]
    /\ loc' = [loc EXCEPT ![p] =
                  [op |-> "store", server_url |-> server_url,
                   association |-> association,
                   assoc |-> [query |-> AssociationGetQuery(<<>>, "-")]]]
    /\ UNCHANGED <<unique, users, social, nonces, assocs, partials, ret, res>>

\* Association.store, the rest: the four fields are set as attributes of the
\* query object, whose save() does not exist: AttributeError, and no row is
\* written
StoreSave(p) ==
    /\ pc[p] = "store_save"
    /\ pc' = [pc EXCEPT ![p] = "idle"]
    /\ loc' = [loc EXCEPT ![p] = Idle]
    /\ res' = [res EXCEPT ![p] =
                  [op |-> "store", server_url |-> loc[p].server_url,
                   association |-> loc[p].association,
                   assoc |-> [query |-> loc[p].assoc.query,
                              secret |-> encodestring(loc[p].association.secret),
                              issued |-> loc[p].association.issued,
                              lifetime |-> loc[p].association.lifetime,
                              assoc_type |-> loc[p].association.assoc_type],
                   raised |-> "AttributeError"]]
    /\ UNCHANGED <<unique, users, social, nonces, assocs, partials, ret>>

\* Association.remove(ids_to_delete): delete() is looked up on the select
\* query, which has none: AttributeError, and no row is deleted
Remove(p, ids_to_delete) ==
    /\ pc[p] = "idle"
    /\ res' = [res EXCEPT ![p] =
                  [op |-> "remove", ids |-> ids_to_delete,
                   raised |-> "AttributeError"]]
    /\ UNCHANGED <<unique, users, social, nonces, assocs, partials, ret, pc, loc>>

\* the rows Partial.load(token) can return; none stands for None
Loaded(token) == {r \in partials : r.token = token}

\* Partial.load(token)
Load(p, token) ==
    /\ pc[p] = "idle"
    /\ \/ /\ Loaded(token) = {}
          /\ res' = [res EXCEPT ![p] =
                        [op |-> "load", token |-> token, rows |-> {},
                         raised |-> ""]]
       \/ \E r \in Loaded(token) :
             res' = [res EXCEPT ![p] =
                        [op |-> "load", token |-> token, rows |-> {r},
                         raised |-> ""]]
    /\ UNCHANGED <<unique, users, social, nonces, assocs, partials, ret, pc, loc>>

\* Partial.destroy(token): partial.delete() is Model.delete, a classmethod
\* that builds a DELETE query and does not run it: no row is deleted
Destroy(p, token) ==
    /\ pc[p] = "idle"
    /\ \/ /\ Loaded(token) = {}
          /\ res' = [res EXCEPT ![p] =
                        [op |-> "destroy", token |-> token, rows |-> {},
                         raised |-> ""]]
       \/ \E r \in Loaded(token) :
             res' = [res EXCEPT ![p] =
                        [op |-> "destroy", token |-> token, rows |-> {r},
                         raised |-> ""]]
    /\ partials' = partials
    /\ UNCHANGED <<unique, users, social, nonces, assocs, ret, pc, loc>>

InitStore ==
    /\ unique \in BOOLEAN
    /\ users = {}
    /\ social = {}
    /\ nonces \in NonceStores
    /\ assocs \in AssocStores
    /\ partials \in PartialStores
    /\ ret = NoRet
    /\ pc = [p \in Callers |-> "idle"]
    /\ loc = [p \in Callers |-> Idle]
    /\ res = [p \in Callers |-> Idle]

\* one caller, one call after the other
NextStore ==
    \/ \E t \in Triples : Use(1, t)
    \/ \E k \in AssocKwargs : \E f \in FirstItems(k) : AssociationGet(1, k, f)
    \/ \E u \in ServerUrls, a \in Associations : StoreGet(1, u, a)
    \/ StoreSave(1)
    \/ \E ids \in SUBSET (1..2) : Remove(1, ids)
    \/ \E t \in Tokens : Load(1, t)
    \/ \E t \in Tokens : Destroy(1, t)

SpecStore == InitStore /\ [][NextStore]_vars

\* two callers running use and store at the same time, their steps
\* interleaved
NextRace ==
    \E p \in Callers :
        \/ \E t \in Triples : Use(p, t)
        \/ \E u \in ServerUrls, a \in Associations : StoreGet(p, u, a)
        \/ StoreSave(p)

SpecRace == InitStore /\ [][NextRace]_vars

--------------------------------------------------------------------------
(* Claims about the stores, under SpecStore and SpecRace *)

\* the nonce rows that carry a triple
NonceRows(t) ==
    {r \in nonces : /\ r.server_url = t.server_url
                    /\ r.timestamp = t.timestamp
                    /\ r.salt = t.salt}

\* the association rows that carry a key
AssocRows(server_url, handle) ==
    {r \in assocs : r.server_url = server_url /\ r.handle = handle}

\* C1: use is an idempotent get-or-create: a finished use(triple) has
\* raised nothing and has returned the one row that carries the triple
C1_UseGetsOrCreates ==
    \A p \in Callers :
        res[p].op = "use" =>
            /\ res[p].raised = ""
            /\ Cardinality(NonceRows(res[p].triple)) = 1
            /\ res[p].rows = NonceRows(res[p].triple)

\* C2: store is an upsert: a finished store(server_url, association) has
\* left exactly one row with the key (server_url, handle), holding the
\* base64 text of the secret and the issued, lifetime and assoc_type of
\* that call
C2_StoreUpserts ==
    \A p \in Callers :
        res[p].op = "store" =>
            /\ res[p].raised = ""
            /\ AssocRows(res[p].server_url, res[p].association.handle) =
                  {AssocRow(r.id, res[p].server_url, res[p].association) :
                      r \in AssocRows(res[p].server_url,
                                      res[p].association.handle)}
            /\ Cardinality(AssocRows(res[p].server_url,
                                     res[p].association.handle)) = 1

\* C5: a finished destroy(token) has raised nothing and has left no row
\* with the token, so that load(token) gives null
C5_DestroyDeletes ==
    \A p \in Callers :
        res[p].op = "destroy" =>
            /\ res[p].raised = ""
            /\ Loaded(res[p].token) = {}

\* C6: a finished remove(ids) has raised nothing, whether or not the ids
\* exist, and has left no row whose id is among them
C6_RemoveDeletes ==
    \A p \in Callers :
        res[p].op = "remove" =>
            /\ res[p].raised = ""
            /\ \A r \in assocs : r.id \notin res[p].ids

\* C10: use and store are a lookup followed by an insert: when two callers
\* have run the same one with the same natural key, a row with the key is
\* in the store, and under a unique index it is the only one and each
\* caller has either succeeded or seen the constraint violation
C10_RaceLeavesTheKey ==
    \A p \in Callers : \A q \in Callers \ {p} :
        /\ (res[p].op = "use" /\ res[q].op = "use"
              /\ res[p].triple = res[q].triple) =>
              /\ NonceRows(res[p].triple) # {}
              /\ unique =>
                    /\ Cardinality(NonceRows(res[p].triple)) = 1
                    /\ {res[p].raised, res[q].raised}
                          \subseteq {"", "IntegrityError"}
        /\ (res[p].op = "store" /\ res[q].op = "store"
              /\ res[p].server_url = res[q].server_url
              /\ res[p].association.handle = res[q].association.handle) =>
              /\ AssocRows(res[p].server_url, res[p].association.handle) # {}
              /\ unique =>
                    /\ Cardinality(AssocRows(res[p].server_url,
                                             res[p].association.handle)) = 1
                    /\ {res[p].raised, res[q].raised}
                          \subseteq {"", "IntegrityError"}

--------------------------------------------------------------------------
(* Claims about the user operations, under SpecUser *)

\* the users that satisfy every entry of the criteria
UsersMatchingAll(kwargs) == {u \in users : Matches(u, AllItemsQuery(kwargs))}

\* C7: the predicate built from a mapping is the conjunction of all its
\* entries, so user_exists(criteria) is true exactly when some user matches
\* every criterion (the empty mapping matching every user)
C7_UserExistsMatchesAll ==
    ret.op = "user_exists" =>
        ret.flag = (UsersMatchingAll(ret.kwargs) # {})

\* C8: get_user looks up by primary key alone when pk is given and by all
\* the criteria otherwise, and returns null exactly when no user matches
C8_GetUserMatchesAll ==
    ret.op = "get_user" =>
        LET want == IF Truthy(ret.pk)
                    THEN {u \in users : u.id = ret.pk.v}
                    ELSE UsersMatchingAll(ret.kwargs)
        IN /\ ret.rows \subseteq want
           /\ (ret.rows = {}) = (want = {})

--------------------------------------------------------------------------
(* Claims about disconnection, under SpecDisconnect *)

\* the associations the user owns other than the one being disconnected
OtherAssociations(user, backend_name, association_id) ==
    {r \in social :
        /\ r.user = user.id
        /\ IF association_id.none THEN r.provider # backend_name
           ELSE r.id # association_id.v}

\* C3 as stated: allowed_to_disconnect is true exactly when the user has a
\* usable password or owns an association other than the disconnected one
C3_UsablePasswordOrOther ==
    ret.op = "allowed_to_disconnect" =>
        ret.flag = (\/ ret.user.pw = "usable"
                    \/ OtherAssociations(ret.user, ret.backend_name,
                                         ret.association_id) # {})

\* C3 as amended: allowed_to_disconnect is true exactly when the user has a
\* usable password, or is of a user model without has_usable_password, or
\* owns an association other than the disconnected one; associations of
\* other users never count
C3_AllowedToDisconnect ==
    ret.op = "allowed_to_disconnect" =>
        ret.flag = (\/ ret.user.pw = "usable"
                    \/ ret.user.pw = "nomethod"
                    \/ OtherAssociations(ret.user, ret.backend_name,
                                         ret.association_id) # {})

\* a user without a usable password disconnects one of its two
\* associations by id, while another user owns none, and is allowed to
C3_Witness ==
    /\ ret.op = "allowed_to_disconnect"
    /\ ret.user.pw = "unusable"
    /\ ~ret.association_id.none
    /\ Cardinality({r \in social : r.user = ret.user.id}) = 2
    /\ \E r \in social : r.user = ret.user.id /\ r.id = ret.association_id.v
    /\ ret.flag

--------------------------------------------------------------------------
(* Claims about creation, lookup and classification, under SpecSocial *)

\* a successful create_social_auth directly followed by get_social_auth
\* with the same provider and the same uid, as passed or as text
CreatedThenGet ==
    /\ ret.op = "create_social_auth"
    /\ ret.raised = ""
    /\ ret'.op = "get_social_auth"
    /\ ret'.provider = ret.provider
    /\ UidText(ret'.uid) = UidText(ret.uid)

\* C4 as stated: get_social_auth after create_social_auth returns an
\* association with the user, the provider and the uid of the one created
C4_GetReturnsCreated ==
    [][CreatedThenGet =>
          \E r \in ret'.rows, c \in ret.rows :
              r.user = c.user /\ r.provider = c.provider /\ r.uid = c.uid]_vars

\* C4 as amended: a create_social_auth the engine accepts inserts one row
\* with the user, the provider and the text form of the uid; a following
\* get_social_auth returns a row with that provider and uid text, the
\* created one when no other row carries the pair; and get_social_auth
\* returns null exactly when no row has (provider, str(uid))
C4_RoundTrip ==
    [][/\ (ret'.op = "create_social_auth" /\ social' # social) =>
            \E r \in social' \ social :
                /\ social' = social \cup {r}
                /\ ret'.rows = {r}
                /\ ret'.raised = ""
                /\ r.user = ret'.user
                /\ r.provider = ret'.provider
                /\ r.uid = UidText(ret'.uid)
       /\ CreatedThenGet =>
            /\ ret'.rows # {}
            /\ \A r \in ret'.rows :
                  /\ r \in social
                  /\ r.provider = ret.provider
                  /\ r.uid = UidText(ret.uid)
            /\ (\A x \in social :
                   (x.provider = ret.provider /\ x.uid = UidText(ret.uid))
                       => x \in ret.rows)
                  => ret'.rows = ret.rows
       /\ ret'.op = "get_social_auth" =>
            (ret'.rows = {}) =
                (~\E r \in social' : /\ r.provider = ret'.provider
                                     /\ r.uid = UidText(ret'.uid))
      ]_vars

\* get_social_auth("google", 123) finds the row created with uid "123"
C4_Witness ==
    /\ ret.op = "get_social_auth"
    /\ ret.uid = IntUid(123)
    /\ ret.provider = "google"
    /\ \E r \in social : ret.rows = {r} /\ r.uid = "123" /\ r.provider = "google"

\* C9 as stated: is_integrity_error is true exactly for the engine's
\* IntegrityError and the errors derived from it
C9_IntegrityErrorOrDerived ==
    ret.op = "is_integrity_error" =>
        ret.flag = IsSubclass(ret.exception, "IntegrityError")

\* C9 as amended: is_integrity_error is true exactly when the class of the
\* exception is the engine's IntegrityError itself
C9_ExactlyIntegrityError ==
    ret.op = "is_integrity_error" =>
        ret.flag = (ret.exception = "IntegrityError")

\* the classifier has seen an IntegrityError and has said so
C9_Witness ==
    /\ ret.op = "is_integrity_error"
    /\ ret.exception = "IntegrityError"
    /\ ret.flag

==========================================================================
